---- MODULE Spec2Model ----
(***************************************************************************)
(* Scene graph of the compositor (src/core/scene.cpp): nodes, ordered      *)
(* children lists, the structure-preserving replacement of a floating      *)
(* node's children, the visitor traversal and the keyboard-focus diff of   *)
(* the root node.                                                          *)
(***************************************************************************)
EXTENDS Integers, Sequences, FiniteSets, TLC

(***************************************************************************)
(* Bounds of the model.                                                    *)
(***************************************************************************)
\* number of view (leaf) nodes created by feature code
NumViews == 1
\* cap on the non-structure entries held by all target nodes together
MaxAttached == 2

\* (int)layer::ALL_LAYERS, the number of layer nodes of the root
ALL_LAYERS == 8

(***************************************************************************)
(* Node identities.  A node is <<kind, index>>.                            *)
(***************************************************************************)
Root == <<"root", 0>>
Layer(i) == <<"layer", i>>
Output(k) == <<"output", k>>
Dynamic(k) == <<"dynamic", k>>
Static(k) == <<"static", k>>
View(j) == <<"view", j>>
\* the null parent pointer
NoNode == <<"null", 0>>

Layers == {Layer(i) : i \in 0 .. (ALL_LAYERS - 1)}
\* the scene has one output
Outputs == {Output(1)}
Regions == {Dynamic(o[2]) : o \in Outputs} \cup {Static(o[2]) : o \in Outputs}
Views == {View(j) : j \in 1 .. NumViews}

Nodes == {Root} \cup Layers \cup Outputs \cup Regions \cup Views
\* nodes that own a children list
InnerNodes == Nodes \ Views
\* floating_inner_node_t instances: root, layers, outputs' static and dynamic
FloatingNodes == {Root} \cup Layers \cup Regions

\* node_t::_is_structure, fixed by the constructors
IsStructureNode(n) == n \in FloatingNodes

VARIABLES
    children,                \* inner_node_t::children, per inner node
    parent,                  \* node_t::_parent, per node
    flags,                   \* ACTIVE_KEYBOARD bit of node_t::flags(), per node
    active_keyboard_nodes,   \* root_node_t::priv_t::active_keyboard_nodes
    call,                    \* the last operation: its arguments and its result
    notes,                   \* keyboard notifications of the last update(), in order
    lost,                    \* active nodes that were not focusable at some moment
                             \* since the last update()
    history                  \* per node its last two keyboard notifications, and
                             \* the nodes that were focusable at some update()

vars == <<children, parent, flags, active_keyboard_nodes, call, notes, lost,
          history>>

(***************************************************************************)
(* Sequence helpers.                                                       *)
(***************************************************************************)
Range(s) == {s[i] : i \in 1 .. Len(s)}

InsertAt(s, p, n) == SubSeq(s, 1, p) \o <<n>> \o SubSeq(s, p + 1, Len(s))

RemoveAt(s, p) == SubSeq(s, 1, p - 1) \o SubSeq(s, p + 1, Len(s))

SwapAt(s, p) ==
    [i \in 1 .. Len(s) |-> IF i = p THEN s[p + 1] ELSE IF i = p + 1 THEN s[p] ELSE s[i]]

(***************************************************************************)
(* extract_structure_nodes: the structure nodes of a list, in list order.  *)
(***************************************************************************)
\* the extraction without its is_structure_node() test
ExtractEveryNode(list) == list

RECURSIVE ExtractStructureNodes(_)
ExtractStructureNodes(list) ==
    IF list = <<>>
    THEN <<>>
    ELSE (IF IsStructureNode(Head(list)) THEN <<Head(list)>> ELSE <<>>)
             \o ExtractStructureNodes(Tail(list))

(***************************************************************************)
(* inner_node_t::set_children_unchecked: every node of the new list gets   *)
(* its parent pointer set to the owner, then the list replaces the old one.*)
(***************************************************************************)
ParentAfterSet(par, P, new_list) ==
    [n \in Nodes |-> IF n \in Range(new_list) THEN P ELSE par[n]]

ChildrenAfterSet(ch, P, new_list) == [ch EXCEPT ![P] = new_list]

\* the constructor's loop counting up instead of down
RootChildrenAscending == [p \in 1 .. ALL_LAYERS |-> Layer(p - 1)]

(***************************************************************************)
(* State after construction: root_node_t::root_node_t pushes layers[i] for *)
(* i = ALL_LAYERS-1 down to 0; output_node_t::output_node_t sets its       *)
(* children to {dynamic, _static}.  Views are created detached.            *)
(***************************************************************************)
RootChildren == [p \in 1 .. ALL_LAYERS |-> Layer(ALL_LAYERS - p)]

OutputChildren(k) == <<Dynamic(k), Static(k)>>

NoCall == [op |-> "init", target |-> NoNode, list |-> <<>>, ret |-> FALSE]

Init ==
    /\ children = [P \in InnerNodes |->
                      IF P = Root THEN RootChildren
                      ELSE IF P \in Outputs THEN OutputChildren(P[2])
                      ELSE <<>>]
    /\ parent = [n \in Nodes |->
                    IF n \in Layers THEN Root
                    ELSE IF n \in Regions THEN Output(n[2])
                    ELSE NoNode]
    /\ flags = [n \in Nodes |-> FALSE]
    /\ active_keyboard_nodes = <<>>
    /\ call = NoCall
    /\ notes = <<>>
    /\ lost = {}
    /\ history = [last |-> [n \in Nodes |-> <<>>], eligible |-> {}]

\* the nodes reachable from the nodes of S by following children lists of ch
RECURSIVE Closure(_, _)
Closure(ch, S) ==
    LET T == S \cup UNION {Range(ch[P]) : P \in S \cap InnerNodes}
    IN  IF T = S THEN S ELSE Closure(ch, T)

Reachable(ch, n) == Closure(ch, {n})

\* a node update() would collect: its flag is set and the traversal from the
\* root meets it
Focusable(ch, fl, n) == fl[n] /\ n \in Reachable(ch, Root)

\* bookkeeping of lost after the graph or the flags changed
LostAfter(ch, fl) ==
    lost \cup {n \in Range(active_keyboard_nodes) : ~Focusable(ch, fl, n)}

\* the process runs until a traversal recurses without end
Running == call.op # "crash"

(***************************************************************************)
(* Inputs of set_children_list.                                            *)
(***************************************************************************)
\* floating nodes that feature code calls set_children_list on: the root, the
\* workspace layer (layers[2]) and the dynamic region of every output
WorkspaceLayer == Layer(2)

Targets == {Root, WorkspaceLayer} \cup {Dynamic(o[2]) : o \in Outputs}

\* nodes created by feature code
FeatureNodes == Views \cup Outputs

\* number of non-structure entries of a list
RECURSIVE Extras(_)
Extras(list) ==
    IF list = <<>> THEN 0
    ELSE (IF IsStructureNode(Head(list)) THEN 0 ELSE 1) + Extras(Tail(list))

RECURSIVE SumExtras(_, _)
SumExtras(ch, S) ==
    IF S = {} THEN 0
    ELSE LET P == CHOOSE x \in S : TRUE
         IN Extras(ch[P]) + SumExtras(ch, S \ {P})

\* candidate lists: the current list with a feature node or a structure node
\* pushed at the end, with the first or last entry removed, with the first or
\* last pair swapped, the empty list and the lists of one feature node
Candidates(F) ==
    LET c == children[F]
    IN  {InsertAt(c, Len(c), n) : n \in FeatureNodes \cup Targets}
        \cup {RemoveAt(c, p) : p \in {1, Len(c)} \cap (1 .. Len(c))}
        \cup {SwapAt(c, p) : p \in {1, Len(c) - 1} \cap (1 .. (Len(c) - 1))}
        \cup {<<>>}
        \cup {<<n>> : n \in FeatureNodes}

(***************************************************************************)
(* floating_inner_node_t::set_children_list                                *)
(***************************************************************************)
\* the replacement with the parent pointers written before the comparison
SetChildrenListEagerParent(F, new_list) ==
    /\ parent' = ParentAfterSet(parent, F, new_list)
    /\ IF ExtractStructureNodes(children[F]) # ExtractStructureNodes(new_list)
       THEN /\ call' = [op |-> "set_children_list", target |-> F,
                        list |-> new_list, ret |-> FALSE]
            /\ UNCHANGED children
       ELSE /\ children' = ChildrenAfterSet(children, F, new_list)
            /\ call' = [op |-> "set_children_list", target |-> F,
                        list |-> new_list, ret |-> TRUE]

\* the replacement without the comparison of the structure nodes
SetChildrenListUnvalidated(F, new_list) ==
    /\ parent' = ParentAfterSet(parent, F, new_list)
    /\ children' = ChildrenAfterSet(children, F, new_list)
    /\ call' = [op |-> "set_children_list", target |-> F,
                list |-> new_list, ret |-> TRUE]

SetChildrenList(F, new_list) ==
    IF ExtractStructureNodes(children[F]) # ExtractStructureNodes(new_list)
    THEN /\ call' = [op |-> "set_children_list", target |-> F,
                     list |-> new_list, ret |-> FALSE]
         /\ UNCHANGED <<children, parent>>
    ELSE /\ parent' = ParentAfterSet(parent, F, new_list)
         /\ children' = ChildrenAfterSet(children, F, new_list)
         /\ call' = [op |-> "set_children_list", target |-> F,
                     list |-> new_list, ret |-> TRUE]

DoSetChildrenList ==
    \E F \in Targets :
        \E new_list \in Candidates(F) :
            /\ Running
            /\ SumExtras(children, Targets \ {F}) + Extras(new_list) <= MaxAttached
            /\ SetChildrenList(F, new_list)
            /\ notes' = <<>>
            /\ lost' = LostAfter(children', flags)
            /\ UNCHANGED <<flags, active_keyboard_nodes>>

Next == DoSetChildrenList /\ UNCHANGED history

Spec == Init /\ [][Next]_vars

(***************************************************************************)
(* A smaller set of inputs of set_children_list, used where other          *)
(* operations are interleaved with it: on the workspace layer or a dynamic *)
(* region, a feature node the list does not hold yet is pushed at the end, *)
(* or the last entry is removed.                                           *)
(***************************************************************************)
EditTargets == Targets \ {Root}

Edits(F) ==
    LET c == children[F]
    IN  {InsertAt(c, Len(c), n) : n \in FeatureNodes \ Range(c)}
        \cup {RemoveAt(c, p) : p \in {Len(c)} \cap (1 .. Len(c))}

EditChildrenList ==
    \E F \in EditTargets :
        \E new_list \in Edits(F) :
            /\ Running
            /\ SumExtras(children, Targets \ {F}) + Extras(new_list) <= MaxAttached
            /\ SetChildrenList(F, new_list)
            /\ notes' = <<>>
            /\ lost' = LostAfter(children', flags)
            /\ UNCHANGED <<flags, active_keyboard_nodes>>

(***************************************************************************)
(* The visitor protocol.  A visitor is a function from nodes to the answer *)
(* of its callback at that node.  A traversal yields its return value and  *)
(* the nodes whose callback ran, in order.  A node met again below itself  *)
(* is expanded as before, so the recursion never returns: "DIVERGE".       *)
(***************************************************************************)
Answers == {"STOP", "SKIP_CHILDREN", "ALL"}

RECURSIVE Visit(_, _, _, _)
RECURSIVE VisitChildren(_, _, _, _, _)

\* view_node_t::visit: the view_node callback decides
LeafVisit(vis, n) == [res |-> vis[n], trace |-> <<n>>]

\* the children loop without the test of the child's result
VisitChildrenIgnoringStop(ch, vis, list, path, acc) ==
    IF list = <<>>
    THEN [res |-> "ALL", trace |-> acc]
    ELSE LET r == Visit(ch, vis, Head(list), path)
         IN  IF r.res = "DIVERGE"
             THEN [res |-> r.res, trace |-> acc \o r.trace]
             ELSE VisitChildren(ch, vis, Tail(list), path, acc \o r.trace)

\* the loop of inner_node_t::visit over get_children(): the first child whose
\* visit returns STOP ends it
VisitChildren(ch, vis, list, path, acc) ==
    IF list = <<>>
    THEN [res |-> "ALL", trace |-> acc]
    ELSE LET r == Visit(ch, vis, Head(list), path)
         IN  IF r.res \in {"STOP", "DIVERGE"}
             THEN [res |-> r.res, trace |-> acc \o r.trace]
             ELSE VisitChildren(ch, vis, Tail(list), path, acc \o r.trace)

\* the switch without its SKIP_CHILDREN case: the children loop runs for
\* every answer but STOP
VisitExpandingSkipped(ch, vis, n, path) ==
    IF n \notin InnerNodes
    THEN LeafVisit(vis, n)
    ELSE IF n \in path
    THEN [res |-> "DIVERGE", trace |-> <<n>>]
    ELSE IF vis[n] = "STOP"
    THEN [res |-> "STOP", trace |-> <<n>>]
    ELSE VisitChildren(ch, vis, ch[n], path \cup {n}, <<n>>)

\* inner_node_t::visit, and the leaf's visit for a view
Visit(ch, vis, n, path) ==
    IF n \notin InnerNodes
    THEN LeafVisit(vis, n)
    ELSE IF n \in path
    THEN [res |-> "DIVERGE", trace |-> <<n>>]
    ELSE IF vis[n] = "STOP"
    THEN [res |-> "STOP", trace |-> <<n>>]
    ELSE IF vis[n] = "ALL"
    THEN VisitChildren(ch, vis, ch[n], path \cup {n}, <<n>>)
    ELSE [res |-> "ALL", trace |-> <<n>>]

\* visitors offered to visit(): ALL everywhere, except STOP at one node and
\* SKIP_CHILDREN at another
Visitor(stop, skip) ==
    [n \in Nodes |-> IF n = stop THEN "STOP"
                     ELSE IF n = skip THEN "SKIP_CHILDREN"
                     ELSE "ALL"]

\* inner nodes a traversal is started at
VisitStarts == {Root} \cup Outputs

\* nodes at which a visitor answers STOP
StopNodes == Nodes \cup {NoNode}

\* nodes at which a visitor answers SKIP_CHILDREN: the leaves and the inner
\* nodes whose children list is ever non-empty
SkipNodes == FeatureNodes \cup Targets \cup {NoNode}

\* A traversal reads the graph and writes nothing, so a traversal that follows
\* another finds what it would have found in its place: the model starts one
\* only after a step of another operation.
DoVisit ==
    /\ Running
    /\ call.op # "visit"
    /\ \E start \in VisitStarts :
        \E stop \in StopNodes :
            \E skip \in SkipNodes :
                LET r == Visit(children, Visitor(stop, skip), start, {})
                IN  call' = [op |-> IF r.res = "DIVERGE" THEN "crash" ELSE "visit",
                             target |-> start, list |-> r.trace, ret |-> r.res,
                             stop |-> stop, skip |-> skip]
    /\ notes' = <<>>
    /\ UNCHANGED <<children, parent, flags, active_keyboard_nodes, lost>>

NextVisit == (EditChildrenList \/ DoVisit) /\ UNCHANGED history

SpecVisit == Init /\ [][NextVisit]_vars

(***************************************************************************)
(* find_node_at.  The point and the geometry of the views are abstracted   *)
(* to the set of views whose area contains the point.  A query yields the  *)
(* node found, NoNode for an empty optional, and the nodes that were       *)
(* queried, in order.                                                      *)
(***************************************************************************)
\* the result of a recursion that never returns
Diverged == <<"diverge", 0>>

RECURSIVE FindNodeAt(_, _, _, _)
RECURSIVE FindInChildren(_, _, _, _, _)

\* view_node_t::find_node_at: the view itself when the point is in its area
LeafFindNodeAt(hits, n) ==
    [res |-> IF n \in hits THEN n ELSE NoNode, trace |-> <<n>>]

\* the loop that keeps the last match instead of returning the first
FindInChildrenKeepLast(ch, hits, list, path, acc) ==
    IF list = <<>>
    THEN [res |-> NoNode, trace |-> acc]
    ELSE LET child_node == FindNodeAt(ch, hits, Head(list), path)
             rest == FindInChildren(ch, hits, Tail(list), path,
                                    acc \o child_node.trace)
         IN  IF child_node.res = Diverged
             THEN [res |-> Diverged, trace |-> acc \o child_node.trace]
             ELSE IF rest.res = NoNode
             THEN [res |-> child_node.res, trace |-> rest.trace]
             ELSE rest

\* the loop of inner_node_t::find_node_at over get_children(): the first child
\* whose result has a value ends it
FindInChildren(ch, hits, list, path, acc) ==
    IF list = <<>>
    THEN [res |-> NoNode, trace |-> acc]
    ELSE LET child_node == FindNodeAt(ch, hits, Head(list), path)
         IN  IF child_node.res # NoNode
             THEN [res |-> child_node.res, trace |-> acc \o child_node.trace]
             ELSE FindInChildren(ch, hits, Tail(list), path,
                                 acc \o child_node.trace)

\* inner_node_t::find_node_at, and the leaf's find_node_at for a view
FindNodeAt(ch, hits, n, path) ==
    IF n \notin InnerNodes
    THEN LeafFindNodeAt(hits, n)
    ELSE IF n \in path
    THEN [res |-> Diverged, trace |-> <<n>>]
    ELSE FindInChildren(ch, hits, ch[n], path \cup {n}, <<n>>)

\* A query reads the graph and writes nothing: the model starts one only after
\* a step of another operation.
DoFindNodeAt ==
    /\ Running
    /\ call.op # "find_node_at"
    /\ \E start \in VisitStarts :
        \E hits \in SUBSET Views :
            LET r == FindNodeAt(children, hits, start, {})
            IN  call' = [op |-> IF r.res = Diverged THEN "crash" ELSE "find_node_at",
                         target |-> start, list |-> r.trace, ret |-> r.res,
                         hits |-> hits]
    /\ notes' = <<>>
    /\ UNCHANGED <<children, parent, flags, active_keyboard_nodes, lost>>

NextFind == (EditChildrenList \/ DoFindNodeAt) /\ UNCHANGED history

SpecFind == Init /\ [][NextFind]_vars

(***************************************************************************)
(* Capability flags.  flags() is read by the collector; feature code sets  *)
(* and clears the ACTIVE_KEYBOARD bit of the nodes it created.             *)
(***************************************************************************)
SetFlags ==
    \E n \in FeatureNodes :
        /\ Running
        /\ flags' = [flags EXCEPT ![n] = ~flags[n]]
        /\ call' = [op |-> "set_flags", target |-> NoNode, list |-> <<>>, ret |-> FALSE]
        /\ notes' = <<>>
        /\ lost' = LostAfter(children, flags')
        /\ UNCHANGED <<children, parent, active_keyboard_nodes>>

(***************************************************************************)
(* collect_active_nodes_t: every callback tries to push its node and       *)
(* answers ALL.                                                            *)
(***************************************************************************)
CollectorAnswers == [n \in Nodes |-> "ALL"]

\* try_push that puts the node in front of the list
TryPushFront(fl, active_nodes, node) ==
    IF fl[node] THEN <<node>> \o active_nodes ELSE active_nodes

\* collect_active_nodes_t::try_push
TryPush(fl, active_nodes, node) ==
    IF fl[node] THEN Append(active_nodes, node) ELSE active_nodes

RECURSIVE Collect(_, _, _)
Collect(fl, trace, active_nodes) ==
    IF trace = <<>>
    THEN active_nodes
    ELSE Collect(fl, Tail(trace), TryPush(fl, active_nodes, Head(trace)))

(***************************************************************************)
(* root_node_t::priv_t::update_active_nodes                                *)
(***************************************************************************)
\* std::set<node_ptr> built from a vector
AsSet(list) == Range(list)

\* the orders a std::set<node_ptr> may be iterated in: by address
Orderings(S) == {s \in [1 .. Cardinality(S) -> S] : Range(s) = S}

\* the first loop left out
LeaveSetNone(already_focused, new_focused) == {}

\* the first loop with its test dropped
LeaveSetEveryOld(already_focused, new_focused) == already_focused

\* the first loop: old nodes that are not in the new set
LeaveSet(already_focused, new_focused) ==
    {old_focus \in already_focused : old_focus \notin new_focused}

\* the second loop with its test dropped
EnterSetEveryNew(already_focused, new_focused) == new_focused

\* the second loop: new nodes that are not in the old set
EnterSet(already_focused, new_focused) ==
    {new_focus \in new_focused : new_focus \notin already_focused}

Notify(kind, order) == [i \in 1 .. Len(order) |-> [kind |-> kind, node |-> order[i]]]

\* the two loops in the opposite order
EnterThenLeave(leaves, enters) == Notify("enter", enters) \o Notify("leave", leaves)

\* the two loops as written: leave first, enter second
LeaveThenEnter(leaves, enters) == Notify("leave", leaves) \o Notify("enter", enters)

Update ==
    /\ Running
    /\ LET r == Visit(children, CollectorAnswers, Root, {})
       IN  IF r.res = "DIVERGE"
           THEN /\ call' = [op |-> "crash", target |-> Root, list |-> <<>>, ret |-> FALSE]
                /\ notes' = <<>>
                /\ UNCHANGED <<active_keyboard_nodes, lost>>
           ELSE LET active_nodes == Collect(flags, r.trace, <<>>)
                    already_focused == AsSet(active_keyboard_nodes)
                    new_focused == AsSet(active_nodes)
                IN  /\ \E leaves \in Orderings(LeaveSet(already_focused, new_focused)) :
                          \E enters \in Orderings(EnterSet(already_focused, new_focused)) :
                              notes' = LeaveThenEnter(leaves, enters)
                    /\ active_keyboard_nodes' = active_nodes
                    /\ call' = [op |-> "update", target |-> Root, list |-> <<>>,
                                ret |-> TRUE,
                                regained |-> {n \in lost : Focusable(children, flags, n)},
                                repeated |-> call.op = "update"]
                    /\ lost' = {}
    /\ UNCHANGED <<children, parent, flags>>

NextFocus == (EditChildrenList \/ SetFlags \/ Update) /\ UNCHANGED history

SpecFocus == Init /\ [][NextFocus]_vars

(***************************************************************************)
(* The notifications of a node over the updates.  handle_keyboard_enter    *)
(* and handle_keyboard_leave are feature code; what the model keeps of     *)
(* them is, per node, the last two it got (alternation is a property of    *)
(* neighbours), and the nodes that were focusable when some update() ran.  *)
(***************************************************************************)
KeepLastTwo(s) == IF Len(s) > 2 THEN Tail(s) ELSE s

RECURSIVE Deliver(_, _)
Deliver(last, log) ==
    IF log = <<>>
    THEN last
    ELSE Deliver([last EXCEPT ![Head(log).node] =
                      KeepLastTwo(Append(last[Head(log).node], Head(log).kind))],
                 Tail(log))

\* update() with its notifications recorded
UpdateLogged ==
    /\ Update
    /\ history' =
          IF call'.op = "update"
          THEN [last |-> Deliver(history.last, notes'),
                eligible |-> history.eligible
                                \cup {n \in Nodes : Focusable(children, flags, n)}]
          ELSE history

NextHistory ==
    \/ (EditChildrenList \/ SetFlags) /\ UNCHANGED history
    \/ UpdateLogged

SpecHistory == Init /\ [][NextHistory]_vars

(***************************************************************************)
(* root_node_t::priv_t::handle_key.  The handler of a node is feature      *)
(* code: the nodes whose handler answers CONSUME are an input of the call. *)
(* The call yields the nodes whose handler was invoked, in order.          *)
(***************************************************************************)
RECURSIVE HandleKeyLoop(_, _, _)

\* the loop that returns after the first node whatever its handler answers
HandleKeyLoopFirstOnly(list, consumers, invoked) ==
    IF list = <<>> THEN invoked ELSE Append(invoked, Head(list))

\* the loop over active_keyboard_nodes: CONSUME ends it
HandleKeyLoop(list, consumers, invoked) ==
    IF list = <<>>
    THEN invoked
    ELSE IF Head(list) \in consumers
    THEN Append(invoked, Head(list))
    ELSE HandleKeyLoop(Tail(list), consumers, Append(invoked, Head(list)))

\* handlers offered to handle_key: none consumes, or that of one node of the
\* list does (the handler of a node that is not in the list is never asked)
ConsumerSets(list) == {{}} \cup {{n} : n \in Range(list)}

\* handle_key reads the stored list and writes nothing: the model starts one
\* only after a step of another operation.
HandleKey ==
    /\ Running
    /\ call.op # "handle_key"
    /\ \E consumers \in ConsumerSets(active_keyboard_nodes) :
          call' = [op |-> "handle_key", target |-> Root,
                   list |-> HandleKeyLoop(active_keyboard_nodes, consumers, <<>>),
                   ret |-> FALSE, consumers |-> consumers]
    /\ notes' = <<>>
    /\ UNCHANGED <<children, parent, flags, active_keyboard_nodes, lost>>

NextKey ==
    (EditChildrenList \/ SetFlags \/ Update \/ HandleKey) /\ UNCHANGED history

SpecKey == Init /\ [][NextKey]_vars

\* lists that may hold a node twice: push back any feature node, remove the
\* last node
RepeatEdits(F) ==
    LET c == children[F]
    IN  {InsertAt(c, Len(c), n) : n \in FeatureNodes}
        \cup {RemoveAt(c, p) : p \in {Len(c)} \cap (1 .. Len(c))}

RepeatChildrenList ==
    \E F \in EditTargets :
        \E new_list \in RepeatEdits(F) :
            /\ Running
            /\ SumExtras(children, Targets \ {F}) + Extras(new_list) <= MaxAttached
            /\ SetChildrenList(F, new_list)
            /\ notes' = <<>>
            /\ lost' = LostAfter(children', flags)
            /\ UNCHANGED <<flags, active_keyboard_nodes>>

NextScene ==
    (RepeatChildrenList \/ SetFlags \/ Update \/ HandleKey) /\ UNCHANGED history

SpecScene == Init /\ [][NextScene]_vars

(***************************************************************************)
(* Derived notions used by the properties.                                 *)
(***************************************************************************)
\* the ordered subsequence of the structure nodes of a list
StructuralSubsequence(list) == SelectSeq(list, IsStructureNode)

\* a step that is a call of set_children_list
IsSetChildrenListStep == call'.op = "set_children_list"

(***************************************************************************)
(* Properties of set_children_list.                                        *)
(***************************************************************************)
\* C1: set_children_list(L) on a floating node F returns true exactly when the
\* ordered subsequence of structure nodes of F's current children equals that
\* of L (same nodes, same order), and false otherwise.
C1_TrueIffStructurePreserved ==
    [][IsSetChildrenListStep =>
          (call'.ret <=>
              StructuralSubsequence(children[call'.target])
                  = StructuralSubsequence(call'.list))]_vars

\* C1 witness: an accepted call on the root whose list has a feature node in
\* front of a structure node
C1_Witness ==
    /\ call.op = "set_children_list"
    /\ call.target = Root
    /\ call.ret
    /\ \E i, j \in 1 .. Len(call.list) :
          /\ i < j
          /\ ~IsStructureNode(call.list[i])
          /\ IsStructureNode(call.list[j])

\* C2: a call of set_children_list that returns false mutates nothing: every
\* children list and every parent reference is as before the call.
C2_FailureMutatesNothing ==
    [][(IsSetChildrenListStep /\ ~call'.ret) =>
          /\ children' = children
          /\ parent' = parent
          /\ flags' = flags
          /\ active_keyboard_nodes' = active_keyboard_nodes]_vars

\* C2 witness: a rejected call whose list holds a node owned by someone else
C2_Witness ==
    /\ call.op = "set_children_list"
    /\ ~call.ret
    /\ \E n \in Range(call.list) : parent[n] # call.target

\* C3: the ordered subsequence of structure children of every floating node is
\* in every reachable state what it was after construction.
C3_StructureChildrenFixed ==
    \A F \in FloatingNodes :
        StructuralSubsequence(children[F])
            = (IF F = Root THEN RootChildren ELSE <<>>)

\* C3 witness: an accepted call on the root that left two feature nodes among
\* its children
C3_Witness ==
    /\ call.op = "set_children_list"
    /\ call.target = Root
    /\ call.ret
    /\ Extras(children[Root]) = 2

\* C4: every node of every children list has its parent reference pointing to
\* the owner of that list.
C4_ParentIsOwner ==
    \A P \in InnerNodes :
        \A c \in Range(children[P]) : parent[c] = P

\* C5: after an accepted set_children_list(L) on P every node of L has parent
\* P, P's children are L, and a former child of P that is not in L is no longer
\* reachable from the root.
C5_AttachAndDetach ==
    [][(IsSetChildrenListStep /\ call'.ret) =>
          /\ \A n \in Range(call'.list) : parent'[n] = call'.target
          /\ children'[call'.target] = call'.list
          /\ \A c \in Range(children[call'.target]) \ Range(call'.list) :
                c \notin Reachable(children', Root)]_vars

(***************************************************************************)
(* Pre-order, stated on positions: a position is the sequence of child      *)
(* indices leading from the start node to a node.  Positions below a node  *)
(* exist only where the visitor answers ALL.  A position comes before      *)
(* another when it is a proper prefix of it or branches off to the left.   *)
(***************************************************************************)
\* no position without a repeated owner is longer than the number of nodes
\* that ever own a non-empty list
MaxPositionLen == Cardinality(Targets \cup Outputs)

RECURSIVE Positions(_, _, _, _)
Positions(ch, vis, n, depth) ==
    {<<>>} \cup
    (IF n \in InnerNodes /\ vis[n] = "ALL" /\ depth > 0
     THEN UNION {{<<i>> \o p : p \in Positions(ch, vis, ch[n][i], depth - 1)} :
                    i \in 1 .. Len(ch[n])}
     ELSE {})

RECURSIVE NodeAt(_, _, _)
NodeAt(ch, n, p) ==
    IF p = <<>> THEN n ELSE NodeAt(ch, ch[n][Head(p)], Tail(p))

Before(p, q) ==
    \E k \in 0 .. Len(p) :
        /\ k <= Len(q)
        /\ SubSeq(p, 1, k) = SubSeq(q, 1, k)
        /\ \/ k = Len(p) /\ k < Len(q)
           \/ k < Len(p) /\ k < Len(q) /\ p[k + 1] < q[k + 1]

Rank(P, p) == Cardinality({q \in P : Before(q, p)}) + 1

(***************************************************************************)
(* Properties of visit.                                                    *)
(***************************************************************************)
\* C6: visit runs the callbacks in pre-order, children in list order, up to and
\* including the first node whose callback answers STOP; nothing is invoked
\* after it, and the visit then returns STOP (ALL when no callback stopped).
C6_PreOrderUntilStop ==
    call.op = "visit" =>
        LET vis == Visitor(call.stop, call.skip)
            P == Positions(children, vis, call.target, MaxPositionLen)
            stops == {Rank(P, p) : p \in {q \in P : vis[NodeAt(children, call.target, q)] = "STOP"}}
            cut == IF stops = {} THEN Cardinality(P)
                   ELSE CHOOSE r \in stops : \A x \in stops : r <= x
        IN  /\ Len(call.list) = cut
            /\ \A p \in P :
                  Rank(P, p) <= cut =>
                      call.list[Rank(P, p)] = NodeAt(children, call.target, p)
            /\ call.ret = (IF stops = {} THEN "ALL" ELSE "STOP")

\* C6 witness: STOP at the first of two children of the workspace layer, which
\* has a later sibling and whose ancestors have later siblings
C6_Witness ==
    /\ call.op = "visit"
    /\ call.ret = "STOP"
    /\ Len(children[WorkspaceLayer]) = 2
    /\ children[WorkspaceLayer][1] = call.stop
    /\ children[WorkspaceLayer][2] # call.stop
    /\ call.skip = NoNode

(***************************************************************************)
(* Properties of update().                                                 *)
(***************************************************************************)
\* the nodes that got a notification of the given kind, and how often
Notified(log, kind) == {log[i].node : i \in {j \in 1 .. Len(log) : log[j].kind = kind}}

TimesNotified(log, kind, n) ==
    Cardinality({i \in 1 .. Len(log) : log[i].kind = kind /\ log[i].node = n})

\* a step that is a call of update() that returned
IsUpdateStep == call'.op = "update"

\* C7: within one update() every keyboard-leave is delivered before any
\* keyboard-enter, and no node gets both an enter and a leave.
C7_LeaveBeforeEnter ==
    call.op = "update" =>
        /\ \A i, j \in 1 .. Len(notes) :
              (notes[i].kind = "leave" /\ notes[j].kind = "enter") => i < j
        /\ Notified(notes, "leave") \cap Notified(notes, "enter") = {}

\* C7 witness: an update() that delivered a leave and an enter
C7_Witness ==
    /\ call.op = "update"
    /\ Notified(notes, "leave") # {}
    /\ Notified(notes, "enter") # {}

\* C8 as claimed: an active node that lost and regained focus before one
\* update() gets both a keyboard-leave and a keyboard-enter from that update().
C8_RegainedGetsBoth ==
    call.op = "update" =>
        \A n \in call.regained :
            n \in Notified(notes, "leave") /\ n \in Notified(notes, "enter")

\* C8 as amended: an active node that lost and regained focus before one
\* update() gets neither a keyboard-leave nor a keyboard-enter from that
\* update(), and stays in the stored active list.
C8_RegainedGetsNeither ==
    call.op = "update" =>
        \A n \in call.regained :
            /\ n \notin Notified(notes, "leave")
            /\ n \notin Notified(notes, "enter")
            /\ n \in Range(active_keyboard_nodes)

\* C8 witness: an update() that processed a node that had lost and regained
\* focus, while another node got a notification
C8_Witness ==
    /\ call.op = "update"
    /\ call.regained # {}
    /\ notes # <<>>

\* C9: update() delivers keyboard-leave exactly once to exactly the nodes of
\* the previous active list that are not in the new one, keyboard-enter exactly
\* once to exactly the nodes of the new list that are not in the previous one,
\* and stores the new list: the nodes with the flag set at the positions the
\* traversal from the root reaches, in pre-order.
C9_DiffAndStore ==
    [][IsUpdateStep =>
          LET old == Range(active_keyboard_nodes)
              new == Range(active_keyboard_nodes')
              P == Positions(children, CollectorAnswers, Root, MaxPositionLen)
              FP == {p \in P : flags[NodeAt(children, Root, p)]}
          IN  /\ \A n \in Nodes :
                    /\ TimesNotified(notes', "leave", n)
                          = (IF n \in old \ new THEN 1 ELSE 0)
                    /\ TimesNotified(notes', "enter", n)
                          = (IF n \in new \ old THEN 1 ELSE 0)
              /\ new = {n \in Reachable(children, Root) : flags[n]}
              /\ Len(active_keyboard_nodes') = Cardinality(FP)
              /\ \A p \in FP :
                    active_keyboard_nodes'[Rank(FP, p)] = NodeAt(children, Root, p)]_vars

\* C9 witness: an update() that stored two distinct nodes, one of them active
\* before and one of them entered by this update()
C9_Witness ==
    /\ call.op = "update"
    /\ Len(active_keyboard_nodes) = 2
    /\ active_keyboard_nodes[1] # active_keyboard_nodes[2]
    /\ Cardinality(Notified(notes, "enter")) = 1

\* C10: an update() that directly follows an update(), with no flag and no
\* children list changed in between, delivers no notification and leaves the
\* stored active list as it was.
C10_UpdateIdempotent ==
    [][(IsUpdateStep /\ call.op = "update") =>
          /\ notes' = <<>>
          /\ active_keyboard_nodes' = active_keyboard_nodes]_vars

\* C10 witness: a second update() in a row with a non-empty active list
C10_Witness ==
    /\ call.op = "update"
    /\ call.repeated
    /\ active_keyboard_nodes # <<>>

(***************************************************************************)
(* Properties of find_node_at.                                             *)
(***************************************************************************)
\* C12: find_node_at on an inner node queries its children in list order and
\* returns the first non-empty match without querying any later child; it
\* returns empty when every child returns empty, so it returns empty for every
\* point when no view is below the node it is called on.
C12_FirstMatchInListOrder ==
    call.op = "find_node_at" =>
        LET P == Positions(children, CollectorAnswers, call.target, MaxPositionLen)
            matches == {Rank(P, p) : p \in {q \in P : NodeAt(children, call.target, q) \in call.hits}}
            cut == IF matches = {} THEN Cardinality(P)
                   ELSE CHOOSE r \in matches : \A x \in matches : r <= x
        IN  /\ Len(call.list) = cut
            /\ \A p \in P :
                  Rank(P, p) <= cut =>
                      call.list[Rank(P, p)] = NodeAt(children, call.target, p)
            /\ call.ret = (IF matches = {} THEN NoNode ELSE call.list[cut])
            /\ (Reachable(children, call.target) \cap Views = {}) => call.ret = NoNode

\* C12 witness: a query on the root that found a view in the workspace layer
\* in front of an output, at a point that is in the area of the view
C12_Witness ==
    /\ call.op = "find_node_at"
    /\ call.target = Root
    /\ call.ret \in Views
    /\ Len(children[WorkspaceLayer]) = 2
    /\ children[WorkspaceLayer][1] = call.ret
    /\ children[WorkspaceLayer][2] \in Outputs

(***************************************************************************)
(* Properties of the fixed skeleton.                                       *)
(***************************************************************************)
\* C13: in every reachable state the structure children of the root are the
\* eight layer nodes of the constructor, one per layer, highest layer first,
\* and the children of every output are exactly its dynamic and its static
\* node, in this order: no set_children_list removes, replaces or reorders
\* them.
C13_SkeletonPersists ==
    LET s == StructuralSubsequence(children[Root])
    IN  /\ Len(s) = 8
        /\ \A i \in 0 .. 7 :
              Cardinality({p \in 1 .. Len(children[Root]) : children[Root][p] = Layer(i)}) = 1
        /\ \A p, q \in 1 .. Len(s) : p < q => s[p][2] > s[q][2]
        /\ \A o \in Outputs : children[o] = <<Dynamic(o[2]), Static(o[2])>>

\* C13 witness: an accepted call on the root that put an output behind the
\* layers
C13_Witness ==
    /\ call.op = "set_children_list"
    /\ call.target = Root
    /\ call.ret
    /\ Len(children[Root]) = ALL_LAYERS + 1
    /\ children[Root][ALL_LAYERS + 1] \in Outputs

(***************************************************************************)
(* Further properties of visit.                                            *)
(***************************************************************************)
\* C14: on every graph reachable by accepted set_children_list calls, a visit
\* started at the root with a visitor that answers ALL everywhere terminates,
\* returns ALL and has run a callback on every node reachable from the root.
C14_VisitRunsToCompletion ==
    (/\ call.op \in {"visit", "crash"}
     /\ call.target = Root
     /\ call.stop = NoNode
     /\ call.skip = NoNode) =>
        /\ call.op = "visit"
        /\ call.ret = "ALL"
        /\ Range(call.list) = Reachable(children, Root)

\* the positions of a traversal that have no node answering SKIP_CHILDREN
\* strictly above them
NotBelowSkipped(ch, n, skip, P) ==
    {p \in P : \A k \in 0 .. Len(p) - 1 : NodeAt(ch, n, SubSeq(p, 1, k)) # skip}

\* C16: when a callback answers SKIP_CHILDREN at a node, no callback runs for
\* any child or descendant of the node during that visit of it, the visit
\* goes on with the next sibling, and the result handed to the caller is ALL:
\* without a STOP the callbacks run at exactly the positions that are not
\* below a skipped node, in pre-order.
C16_SkipChildrenContinues ==
    (call.op = "visit" /\ call.stop = NoNode) =>
        LET P == Positions(children, CollectorAnswers, call.target, MaxPositionLen)
            kept == NotBelowSkipped(children, call.target, call.skip, P)
        IN  /\ call.ret = "ALL"
            /\ Len(call.list) = Cardinality(kept)
            /\ \A p \in kept :
                  call.list[Rank(kept, p)] = NodeAt(children, call.target, p)

\* C16 witness: SKIP_CHILDREN at the workspace layer, which has a child and
\* later siblings, in a visit from the root
C16_Witness ==
    /\ call.op = "visit"
    /\ call.target = Root
    /\ call.stop = NoNode
    /\ call.skip = WorkspaceLayer
    /\ children[WorkspaceLayer] # <<>>
    /\ \E i, j \in 1 .. Len(call.list) :
          i < j /\ call.list[i] = WorkspaceLayer /\ call.list[j] = Layer(0)

(***************************************************************************)
(* Further properties of set_children_list.                                *)
(***************************************************************************)
\* C20: a call of set_children_list whose list holds a structure node that is
\* not already a child of the target is rejected; the root is in no children
\* list and its parent reference is null; the parent reference of every layer
\* node and of every dynamic and static node of an output never changes.
C20_StructureNeverAttached ==
    [][/\ (/\ IsSetChildrenListStep
           /\ \E s \in Range(call'.list) :
                 IsStructureNode(s) /\ s \notin Range(children[call'.target]))
          => ~call'.ret
       /\ \A P \in InnerNodes : Root \notin Range(children'[P])
       /\ parent'[Root] = NoNode
       /\ \A s \in Layers \cup Regions :
             /\ parent'[s] = parent[s]
             /\ parent'[s] = (IF s \in Layers THEN Root ELSE Output(s[2]))]_vars

\* C20 witness: a rejected call whose list holds the root, on a target that
\* has a feature node among its children
C20_Witness ==
    /\ call.op = "set_children_list"
    /\ ~call.ret
    /\ Root \in Range(call.list)
    /\ Extras(children[call.target]) > 0

(***************************************************************************)
(* Properties of handle_key.                                               *)
(***************************************************************************)
\* how often the handler of a node was invoked by one handle_key
TimesInvoked(invoked, n) ==
    Cardinality({i \in 1 .. Len(invoked) : invoked[i] = n})

\* the place of the first node of a list whose handler answers CONSUME, one
\* past the end when there is none
FirstConsumer(list, consumers) ==
    LET at == {i \in 1 .. Len(list) : list[i] \in consumers}
    IN  IF at = {} THEN Len(list) + 1
        ELSE CHOOSE i \in at : \A j \in at : i <= j

\* the stored list up to and including the first CONSUME
UpToFirstConsumer(list, consumers) ==
    LET c == FirstConsumer(list, consumers)
    IN  SubSeq(list, 1, IF c > Len(list) THEN Len(list) ELSE c)

IsHandleKeyStep == call'.op = "handle_key"

\* C11: handle_key offers the event to the nodes of the stored list in list
\* order and stops at the first node whose handler answers CONSUME: no node
\* after it has its handler invoked, every node before it has its handler
\* invoked exactly once, and with an empty list no handler is invoked.
C11_OfferedInOrderUntilConsume ==
    call.op = "handle_key" =>
        LET c == FirstConsumer(active_keyboard_nodes, call.consumers)
        IN  /\ call.list = UpToFirstConsumer(active_keyboard_nodes, call.consumers)
            /\ \A i \in 1 .. Len(active_keyboard_nodes) :
                  /\ i < c => TimesInvoked(call.list, active_keyboard_nodes[i]) = 1
                  /\ i > c => TimesInvoked(call.list, active_keyboard_nodes[i]) = 0
            /\ active_keyboard_nodes = <<>> => call.list = <<>>

\* C18: a node of the stored active list that is detached or has its flag
\* cleared stays in the list and is offered key events by handle_key (unless
\* a node in front of it consumes them) until the next update(); that update()
\* delivers keyboard-leave to it and removes it; handle_key offers events to
\* nodes of the stored list only, and a node gets into the list only by an
\* update() that delivers keyboard-enter to it.
C18_StaleUntilUpdate ==
    [][/\ ~IsUpdateStep => active_keyboard_nodes' = active_keyboard_nodes
       /\ IsHandleKeyStep =>
             call'.list = UpToFirstConsumer(active_keyboard_nodes, call'.consumers)
       /\ IsUpdateStep =>
             /\ \A n \in Range(active_keyboard_nodes) :
                   ~Focusable(children, flags, n) =>
                       /\ TimesNotified(notes', "leave", n) = 1
                       /\ n \notin Range(active_keyboard_nodes')
             /\ \A n \in Range(active_keyboard_nodes') \ Range(active_keyboard_nodes) :
                   TimesNotified(notes', "enter", n) = 1]_vars

\* C18 witness: a handle_key that invoked the handler of a node that is
\* detached from the tree and the handler of a node whose flag is cleared
C18_Witness ==
    /\ call.op = "handle_key"
    /\ \E n, k \in Range(call.list) :
          /\ n \notin Reachable(children, Root) /\ flags[n]
          /\ k \in Reachable(children, Root) /\ ~flags[k]

\* C19: the active list stored by update() holds each node at most once, so
\* one handle_key invokes the handler of a node at most once.
C19_EachNodeStoredOnce ==
    /\ \A i, j \in 1 .. Len(active_keyboard_nodes) :
          i # j => active_keyboard_nodes[i] # active_keyboard_nodes[j]
    /\ call.op = "handle_key" =>
          \A n \in Nodes : TimesInvoked(call.list, n) <= 1

(***************************************************************************)
(* Properties of the notifications over the updates.                       *)
(***************************************************************************)
\* C17: over any sequence of update() calls, flag changes and
\* set_children_list calls the notifications of a node alternate enter, leave,
\* enter, ... starting with enter; a node is in the stored active list exactly
\* when its last notification was an enter; a node that was focusable at no
\* update() got no notification.
C17_EnterLeaveAlternate ==
    \A n \in Nodes :
        LET got == history.last[n]
        IN  /\ \A i \in 1 .. Len(got) - 1 : got[i] # got[i + 1]
            /\ Len(got) = 1 => got[1] = "enter"
            /\ n \in Range(active_keyboard_nodes)
                  <=> (got # <<>> /\ got[Len(got)] = "enter")
            /\ got # <<>> => n \in history.eligible

\* C17 witness: an update() that delivered an enter to a node whose previous
\* notification was a leave, and a leave to another node
C17_Witness ==
    /\ call.op = "update"
    /\ \E n, k \in Nodes :
          /\ n \in Notified(notes, "enter")
          /\ history.last[n] = <<"leave", "enter">>
          /\ k \in Notified(notes, "leave")
          /\ history.last[k] = <<"enter", "leave">>

====
